---- MODULE Spec2Model ----
(***************************************************************************)
(* Model of the BookStore API (src/main.py): signup / login with salted    *)
(* password hashes, signed time-limited bearer tokens, the auth gate on    *)
(* "create book", the book CRUD handlers and the composed list query.      *)
(*                                                                         *)
(* Strings whose content matters (titles, authors, categories, search      *)
(* patterns) are sequences of one-character strings.  Time is counted in   *)
(* ticks of 1/TicksPerSecond second, so that the truncation of a token's   *)
(* expiry to whole seconds is visible.                                     *)
(***************************************************************************)
EXTENDS Integers, Sequences, FiniteSets, TLC

VARIABLES
    users,    \* table "users": sequence of rows in rowid order
    books,    \* table "books": function id -> [title, author, year, category]
    now,      \* the clock, in ticks
    held,     \* the bearer token the client holds (the last one login returned)
              \* and, for the record, the time it was issued at
    last,     \* the last request handled and its response
    wk,       \* per worker: the request in flight and its session state
    writes,   \* history: id -> the field records written to that id by create/update
    registered \* history: username -> the password it was registered with

vars == <<users, books, now, held, last, wk, writes, registered>>

(***************************************************************************)
(* Bounds of the model.                                                    *)
(***************************************************************************)
MaxId == 3            \* create is not offered once the next rowid exceeds this
MaxUsers == 2         \* signup is not offered once this many users are stored
Slack == 2            \* the clock runs up to the default ttl plus this many ticks
NWorkers == 2         \* concurrently handled requests

(***************************************************************************)
(* Program constants.                                                      *)
(***************************************************************************)
ACCESS_TOKEN_EXPIRE_MINUTES == 30
TitleMinLen == 1
TitleMaxLen == 100
AuthorMinLen == 1
AuthorMaxLen == 50
YearGt == 1900
YearLt == 2026
CategoryMinLen == 3
CategoryMaxLen == 50
DefaultLimit == 10
DefaultOffset == 0

SECRET_KEY == "secret"
ALGORITHM == "HS256"

TicksPerSecond == 2   \* resolution of the clock: ticks per second

(***************************************************************************)
(* Strings as sequences of characters.                                     *)
(***************************************************************************)
Rep(c, n) == [i \in 1..n |-> c]

Min(a, b) == IF a < b THEN a ELSE b
Max(a, b) == IF a < b THEN b ELSE a

(***************************************************************************)
(* Token service.  A JWT is its claims plus a signature; HS256 is modelled *)
(* as a keyed function of the claims that no other key or claim set        *)
(* reproduces.                                                             *)
(***************************************************************************)
Sign(key, alg, sub, exp) == <<key, alg, sub, exp>>

NoToken == [kind |-> "none", sub |-> "", exp |-> 0, sig |-> <<>>]
Garbage == [kind |-> "garbage", sub |-> "", exp |-> 0, sig |-> <<>>]

\* timedelta(minutes=m) in ticks
Minutes(m) == m * 60 * TicksPerSecond

\* jwt.encode turns the datetime claim "exp" into whole seconds since the
\* epoch (timegm(utctimetuple())), dropping the fraction of a second.
NumericDate(t) == t \div TicksPerSecond

\* create_access_token(data, expires_delta): expires_delta = 0 stands for None
create_access_token(sub, expires_delta, t) ==
    LET expire == t + (IF expires_delta # 0 THEN expires_delta
                       ELSE Minutes(ACCESS_TOKEN_EXPIRE_MINUTES))
    IN  [kind |-> "jwt", sub |-> sub, exp |-> NumericDate(expire),
         sig |-> Sign(SECRET_KEY, ALGORITHM, sub, NumericDate(expire))]

\* mutant: the token is still accepted in the second it expires
Expired_AfterBoundary(exp, t) == exp * TicksPerSecond < t

\* jwt.decode raises ExpiredSignatureError when exp <= now (now in seconds,
\* with its fraction): compared here in ticks.
Expired(exp, t) == exp * TicksPerSecond <= t

\* verify_access_token: the payload, or None; both exceptions are caught.
None == [ok |-> FALSE, sub |-> ""]
verify_access_token(token, t) ==
    IF token.kind # "jwt" THEN None                                   \* InvalidTokenError
    ELSE IF token.sig # Sign(SECRET_KEY, ALGORITHM, token.sub, token.exp)
         THEN None                                                    \* InvalidTokenError
    ELSE IF Expired(token.exp, t) THEN None                           \* ExpiredSignatureError
    ELSE [ok |-> TRUE, sub |-> token.sub]

(***************************************************************************)
(* Password hashing: bcrypt with a per-call random salt, modelled as a     *)
(* one-way digest of (salt, password) stored beside its salt.              *)
(***************************************************************************)
Digest(salt, password) == <<"bcrypt", salt, password>>

\* mutant: any password is accepted for a stored user
verify_password_AnyPassword(plain_password, hashed_password) ==
    hashed_password.salt \in Nat

hash_password(password, salt) == [salt |-> salt, digest |-> Digest(salt, password)]
verify_password(plain_password, hashed_password) ==
    Digest(hashed_password.salt, plain_password) = hashed_password.digest

(***************************************************************************)
(* Book schema (pydantic) and table rows.                                  *)
(***************************************************************************)
BookFields == {"title", "author", "year", "category"}

\* mutant: the year bounds taken as inclusive
ValidBook_YearInclusive(book) ==
    /\ Len(book.title) >= TitleMinLen /\ Len(book.title) <= TitleMaxLen
    /\ Len(book.author) >= AuthorMinLen /\ Len(book.author) <= AuthorMaxLen
    /\ book.year >= YearGt /\ book.year <= YearLt
    /\ Len(book.category) >= CategoryMinLen /\ Len(book.category) <= CategoryMaxLen

\* class Book: the field constraints
ValidBook(book) ==
    /\ Len(book.title) >= TitleMinLen /\ Len(book.title) <= TitleMaxLen
    /\ Len(book.author) >= AuthorMinLen /\ Len(book.author) <= AuthorMaxLen
    /\ book.year > YearGt /\ book.year < YearLt
    /\ Len(book.category) >= CategoryMinLen /\ Len(book.category) <= CategoryMaxLen

NoBook == [title |-> <<>>, author |-> <<>>, year |-> 0, category |-> <<>>]
NoRow == [id |-> 0, title |-> <<>>, author |-> <<>>, year |-> 0, category |-> <<>>]

\* BookDB(**book.dict()) once the store has assigned its id
Row(id, book) ==
    [id |-> id, title |-> book.title, author |-> book.author,
     year |-> book.year, category |-> book.category]

\* response_model=Book: the response carries the schema's fields only
Serialize(row) ==
    [title |-> row.title, author |-> row.author,
     year |-> row.year, category |-> row.category]

\* Integer primary key of SQLite: one more than the largest rowid in the table
SetMax(S) == CHOOSE x \in S : \A y \in S : y <= x
NextRowId(table) == IF table = {} THEN 1 ELSE SetMax(table) + 1

\* db.query(BookDB).filter(BookDB.id == book_id).first() is None
Absent(book_id) == book_id \notin DOMAIN books

(***************************************************************************)
(* The last request and its response.                                      *)
(***************************************************************************)
Blank ==
    [op |-> "", status |-> 0, detail |-> "", id |-> 0, token |-> NoToken,
     fields |-> NoBook, row |-> NoRow, body |-> NoBook, items |-> <<>>,
     rows |-> <<>>, username |-> "", password |-> "", access_token |-> NoToken,
     query |-> <<>>]

Insert(table, id, book) == [i \in DOMAIN table \cup {id} |-> IF i = id THEN book ELSE table[i]]
\* mutant: the delete is never committed
Remove_NotCommitted(table, id) == table

Remove(table, id) == [i \in DOMAIN table \ {id} |-> table[i]]

(***************************************************************************)
(* get_current_user: the dependency guarding create_book.                  *)
(***************************************************************************)
\* mutant: any bearer token is taken at its word
AuthStatus_Unverified(token, t) == IF token.kind = "none" THEN 401 ELSE 0

\* 0 when the principal resolves, else the status of the HTTPException
AuthStatus(token, t) ==
    IF token.kind = "none" THEN 401                  \* oauth2_scheme: no bearer token
    ELSE IF ~verify_access_token(token, t).ok THEN 401
    ELSE 0

AuthDetail(token) ==
    IF token.kind = "none" THEN "Not authenticated" ELSE "Invalid or expired token"

(***************************************************************************)
(* Handlers, each as one step (a request handled with no other request     *)
(* interleaved).                                                           *)
(***************************************************************************)
\* POST /books/
create_book(token, book) ==
    LET req == [Blank EXCEPT !.op = "create", !.token = token, !.fields = book]
        id == NextRowId(DOMAIN books)
    IN
    /\ IF AuthStatus(token, now) # 0
       THEN /\ last' = [req EXCEPT !.status = AuthStatus(token, now),
                                   !.detail = AuthDetail(token)]
            /\ books' = books
       ELSE IF ~ValidBook(book)
       THEN /\ last' = [req EXCEPT !.status = 422]
            /\ books' = books
       ELSE /\ id <= MaxId
            /\ books' = Insert(books, id, book)
            /\ last' = [req EXCEPT !.status = 200, !.id = id,
                                   !.row = Row(id, books'[id]),
                                   !.body = Serialize(Row(id, books'[id]))]
    /\ UNCHANGED <<users, now, held, wk, writes, registered>>

\* GET /books/{book_id}
get_book(book_id) ==
    LET req == [Blank EXCEPT !.op = "get", !.id = book_id]
    IN
    /\ IF Absent(book_id)
       THEN last' = [req EXCEPT !.status = 404, !.detail = "Book not found"]
       ELSE last' = [req EXCEPT !.status = 200,
                                !.row = Row(book_id, books[book_id]),
                                !.body = Serialize(Row(book_id, books[book_id]))]
    /\ UNCHANGED <<users, books, now, held, wk, writes, registered>>

\* for key, value in book.dict().items(): setattr(db_book, key, value)
SetAll(db_book, book) ==
    [db_book EXCEPT !.title = book.title, !.author = book.author,
                    !.year = book.year, !.category = book.category]

\* PUT /books/{book_id}
update_book(book_id, book) ==
    LET req == [Blank EXCEPT !.op = "update", !.id = book_id, !.fields = book]
    IN
    /\ IF ~ValidBook(book)
       THEN /\ last' = [req EXCEPT !.status = 422]
            /\ books' = books
       ELSE IF Absent(book_id)
       THEN /\ last' = [req EXCEPT !.status = 404, !.detail = "Book not found"]
            /\ books' = books
       ELSE /\ books' = [books EXCEPT ![book_id] = SetAll(@, book)]
            /\ last' = [req EXCEPT !.status = 200,
                                   !.row = Row(book_id, books'[book_id]),
                                   !.body = Serialize(Row(book_id, books'[book_id]))]
    /\ UNCHANGED <<users, now, held, wk, writes, registered>>

\* DELETE /books/{book_id}
delete_book(book_id) ==
    LET req == [Blank EXCEPT !.op = "delete", !.id = book_id]
    IN
    /\ IF Absent(book_id)
       THEN /\ last' = [req EXCEPT !.status = 404, !.detail = "Book not found"]
            /\ books' = books
       ELSE /\ books' = Remove(books, book_id)
            /\ last' = [req EXCEPT !.status = 200,
                                   !.row = Row(book_id, books[book_id]),
                                   !.body = Serialize(Row(book_id, books[book_id]))]
    /\ UNCHANGED <<users, now, held, wk, writes, registered>>

(***************************************************************************)
(* The list query.  Text columns compare byte by byte (SQLite's BINARY     *)
(* collation); ilike is lower(column) LIKE lower(pattern), where % matches *)
(* any run of characters and _ any one character.                          *)
(***************************************************************************)
UpperCase == <<"G", "O", "Z">>
LowerCase == <<"g", "o", "z">>
\* the characters in use, in ASCII order
Ascii == <<"%", "G", "O", "Z", "_", "a", "b", "c", "e", "g", "h", "i", "l", "o", "s", "t", "z">>

Code(c) == CHOOSE i \in DOMAIN Ascii : Ascii[i] = c
ToLower(c) ==
    IF \E i \in DOMAIN UpperCase : UpperCase[i] = c
    THEN LowerCase[CHOOSE i \in DOMAIN UpperCase : UpperCase[i] = c]
    ELSE c
Lower(str) == [i \in DOMAIN str |-> ToLower(str[i])]

RECURSIVE Like(_, _)
Like(str, pattern) ==
    IF pattern = <<>> THEN str = <<>>
    ELSE IF Head(pattern) = "%"
         THEN Like(str, Tail(pattern)) \/ (str # <<>> /\ Like(Tail(str), pattern))
    ELSE IF str = <<>> THEN FALSE
    ELSE /\ (Head(pattern) = "_" \/ Head(pattern) = Head(str))
         /\ Like(Tail(str), Tail(pattern))

\* column.ilike(pattern)
ILike(str, pattern) == Like(Lower(str), Lower(pattern))

RECURSIVE StrLess(_, _)
StrLess(a, b) ==
    IF b = <<>> THEN FALSE
    ELSE IF a = <<>> THEN TRUE
    ELSE IF Head(a) # Head(b) THEN Code(Head(a)) < Code(Head(b))
    ELSE StrLess(Tail(a), Tail(b))

\* an optional query parameter; Python's truth test rejects None and ""
Unset == [given |-> FALSE, v |-> <<>>]
Given(str) == [given |-> TRUE, v |-> str]
Truthy(param) == param.given /\ param.v # <<>>

\* db.query(BookDB): the rows in rowid order
RECURSIVE ScanFrom(_, _)
ScanFrom(table, ids) ==
    IF ids = {} THEN <<>>
    ELSE LET id == CHOOSE x \in ids : \A y \in ids : x <= y
         IN  <<Row(id, table[id])>> \o ScanFrom(table, ids \ {id})
Scan(table) == ScanFrom(table, DOMAIN table)

RECURSIVE Filter(_, _, _)
Filter(rows, category, search) ==
    IF rows = <<>> THEN <<>>
    ELSE LET r == Head(rows)
             keep == /\ (Truthy(category) => r.category = category.v)
                     /\ (Truthy(search) =>
                            \/ ILike(r.title, <<"%">> \o search.v \o <<"%">>)
                            \/ ILike(r.author, <<"%">> \o search.v \o <<"%">>))
         IN  (IF keep THEN <<r>> ELSE <<>>) \o Filter(Tail(rows), category, search)

KeyLess(column, x, y) ==
    IF column = "year" THEN x.year < y.year ELSE StrLess(x[column], y[column])
Before(column, desc, x, y) ==
    IF desc THEN KeyLess(column, y, x) ELSE KeyLess(column, x, y)

\* ORDER BY column [DESC]; rows with equal keys stay in scan order
RECURSIVE Place(_, _, _, _)
Place(r, sorted, column, desc) ==
    IF sorted = <<>> THEN <<r>>
    ELSE IF Before(column, desc, r, Head(sorted)) THEN <<r>> \o sorted
    ELSE <<Head(sorted)>> \o Place(r, Tail(sorted), column, desc)
RECURSIVE OrderByFrom(_, _, _, _)
OrderByFrom(rows, sorted, column, desc) ==
    IF rows = <<>> THEN sorted
    ELSE OrderByFrom(Tail(rows), Place(Head(rows), sorted, column, desc), column, desc)
OrderBy(rows, sort_by, order) ==
    IF sort_by \in {"title", "author", "year"}
    THEN OrderByFrom(rows, <<>>, sort_by, order = "desc")
    ELSE rows

\* mutant: the limit is taken before the offset
Paginate_LimitFirst(rows, offset, limit) ==
    LET top == IF limit < 0 THEN rows ELSE SubSeq(rows, 1, Min(limit, Len(rows)))
    IN  SubSeq(top, Max(offset, 0) + 1, Len(top))

\* .offset(offset).limit(limit): LIMIT ? OFFSET ?, where SQLite takes a
\* negative limit as no limit and a negative offset as 0
Paginate(rows, offset, limit) ==
    LET rest == SubSeq(rows, Max(offset, 0) + 1, Len(rows))
    IN  IF limit < 0 THEN rest ELSE SubSeq(rest, 1, Min(limit, Len(rest)))

Query(table, q) ==
    Paginate(OrderBy(Filter(Scan(table), q.category, q.search), q.sort_by, q.order),
             q.offset, q.limit)

SerializeAll(rows) == [i \in DOMAIN rows |-> Serialize(rows[i])]

\* GET /books/, handling the request worker w has received
get_books(w) ==
    /\ wk[w].pc = "list"
    /\ LET q == wk[w].q
           found == Query(books, q)
       IN  last' = [Blank EXCEPT !.op = "list", !.status = 200, !.query = q,
                                 !.rows = found, !.items = SerializeAll(found)]
    /\ wk' = [wk EXCEPT ![w] = [pc |-> "idle"]]
    /\ UNCHANGED <<users, books, now, held, writes, registered>>

(***************************************************************************)
(* Credential store and login.                                             *)
(***************************************************************************)
\* db.query(User).filter(User.username == username).first()
FindUser(username) ==
    LET hits == {i \in 1..Len(users) : users[i].username = username}
    IN  IF hits = {} THEN 0 ELSE CHOOSE i \in hits : \A j \in hits : i <= j

UserIds == {users[i].id : i \in 1..Len(users)}

\* POST /signup/
signup(username, password, salt) ==
    LET req == [Blank EXCEPT !.op = "signup", !.username = username,
                             !.password = password]
    IN
    /\ IF FindUser(username) # 0
       THEN /\ last' = [req EXCEPT !.status = 400, !.detail = "Username already taken"]
            /\ users' = users
       ELSE /\ Len(users) < MaxUsers
            /\ users' = Append(users, [id |-> NextRowId(UserIds), username |-> username,
                                       hashed_password |-> hash_password(password, salt)])
            /\ last' = [req EXCEPT !.status = 200, !.detail = "User created successfully"]
    /\ registered' = IF users' = users THEN registered
                      ELSE [u \in DOMAIN registered \cup {username} |->
                               IF u = username THEN password ELSE registered[u]]
    /\ UNCHANGED <<books, now, held, wk, writes>>

\* POST /token/
login(username, password) ==
    LET req == [Blank EXCEPT !.op = "login", !.username = username,
                             !.password = password]
        user == FindUser(username)
    IN
    /\ IF user = 0 \/ ~verify_password(password, users[user].hashed_password)
       THEN /\ last' = [req EXCEPT !.status = 400, !.detail = "Invalid Credentials"]
            /\ held' = held
       ELSE LET access_token == create_access_token(users[user].username, 0, now)
            IN  /\ last' = [req EXCEPT !.status = 200, !.access_token = access_token]
                /\ held' = [tok |-> access_token, at |-> now]
    /\ UNCHANGED <<users, books, now, wk, writes, registered>>

\* the clock, watched for Slack ticks from the start and from one tick before
\* the default ttl has passed
ClockValues ==
    (0..Slack) \cup ((Minutes(ACCESS_TOKEN_EXPIRE_MINUTES) - 1)
                        ..(Minutes(ACCESS_TOKEN_EXPIRE_MINUTES) + Slack))
Advance(d) ==
    /\ now + d \in ClockValues
    /\ now' = now + d
    /\ UNCHANGED <<users, books, held, last, wk, writes, registered>>

\* get_current_user on its own: the principal, or 401
get_current_user(token) ==
    LET req == [Blank EXCEPT !.op = "auth", !.token = token]
    IN
    /\ IF AuthStatus(token, now) # 0
       THEN last' = [req EXCEPT !.status = AuthStatus(token, now),
                                !.detail = AuthDetail(token)]
       ELSE last' = [req EXCEPT !.status = 200,
                                !.username = verify_access_token(token, now).sub]
    /\ UNCHANGED <<users, books, now, held, wk, writes, registered>>

(***************************************************************************)
(* Handlers statement by statement.  Each request runs on a worker of its  *)
(* own with a session of its own; between two of its statements (a SELECT, *)
(* the flush and commit, the refresh) any other worker may run.  A request *)
(* that ends writes its response to last and leaves its worker idle.       *)
(***************************************************************************)
Respond(w, resp) ==
    /\ last' = resp
    /\ wk' = [wk EXCEPT ![w] = [pc |-> "idle"]]

ServerError(req) == [req EXCEPT !.status = 500, !.detail = "Internal Server Error"]

StoredUsernames(table) == {table[i].username : i \in 1..Len(table)}

\* signup, up to the SELECT: the username is looked up, the password hashed
signup_select(w, username, password, salt) ==
    LET req == [Blank EXCEPT !.op = "signup", !.username = username,
                             !.password = password]
    IN
    /\ wk[w].pc = "idle"
    /\ IF FindUser(username) # 0
       THEN Respond(w, [req EXCEPT !.status = 400, !.detail = "Username already taken"])
       ELSE /\ wk' = [wk EXCEPT ![w] =
                        [pc |-> "signup_commit", req |-> req,
                         hashed_password |-> hash_password(password, salt)]]
            /\ last' = last
    /\ UNCHANGED <<users, books, now, held, writes, registered>>

\* signup, db.add and db.commit: the INSERT, which the unique index on
\* users.username refuses (IntegrityError, not caught) for a name stored by now
signup_commit(w) ==
    /\ wk[w].pc = "signup_commit"
    /\ LET req == wk[w].req
       IN  IF req.username \in StoredUsernames(users)
           THEN /\ Respond(w, ServerError(req))
                /\ UNCHANGED <<users, registered>>
           ELSE /\ Len(users) < MaxUsers
                /\ users' = Append(users,
                                   [id |-> NextRowId(UserIds), username |-> req.username,
                                    hashed_password |-> wk[w].hashed_password])
                /\ registered' = [u \in DOMAIN registered \cup {req.username} |->
                                    IF u = req.username THEN req.password
                                    ELSE registered[u]]
                /\ Respond(w, [req EXCEPT !.status = 200,
                                          !.detail = "User created successfully"])
    /\ UNCHANGED <<books, now, held, writes>>

\* create_book, up to db.commit: the gate, the schema, the INSERT
create_insert(w, token, book) ==
    LET req == [Blank EXCEPT !.op = "create", !.token = token, !.fields = book]
        id == NextRowId(DOMAIN books)
    IN
    /\ wk[w].pc = "idle"
    /\ IF AuthStatus(token, now) # 0
       THEN /\ Respond(w, [req EXCEPT !.status = AuthStatus(token, now),
                                      !.detail = AuthDetail(token)])
            /\ UNCHANGED <<books, writes>>
       ELSE IF ~ValidBook(book)
       THEN /\ Respond(w, [req EXCEPT !.status = 422])
            /\ UNCHANGED <<books, writes>>
       ELSE /\ id \in DOMAIN writes
            /\ books' = Insert(books, id, book)
            /\ writes' = [writes EXCEPT ![id] = {book}]
            /\ wk' = [wk EXCEPT ![w] = [pc |-> "create_refresh",
                                        req |-> [req EXCEPT !.id = id]]]
            /\ last' = last
    /\ UNCHANGED <<users, now, held, registered>>

\* db.refresh(db_book): the row is read again by its id
Refresh(w) ==
    LET req == wk[w].req
    IN  IF Absent(req.id)
        THEN Respond(w, ServerError(req))            \* InvalidRequestError
        ELSE Respond(w, [req EXCEPT !.status = 200,
                                    !.row = Row(req.id, books[req.id]),
                                    !.body = Serialize(Row(req.id, books[req.id]))])

create_refresh(w) ==
    /\ wk[w].pc = "create_refresh"
    /\ Refresh(w)
    /\ UNCHANGED <<users, books, now, held, writes, registered>>

\* update_book, up to the SELECT
update_select(w, book_id, book) ==
    LET req == [Blank EXCEPT !.op = "update", !.id = book_id, !.fields = book]
    IN
    /\ wk[w].pc = "idle"
    /\ IF ~ValidBook(book)
       THEN Respond(w, [req EXCEPT !.status = 422])
       ELSE IF Absent(book_id)
       THEN Respond(w, [req EXCEPT !.status = 404, !.detail = "Book not found"])
       ELSE /\ wk' = [wk EXCEPT ![w] = [pc |-> "update_commit", req |-> req,
                                        loaded |-> books[book_id]]]
            /\ last' = last
    /\ UNCHANGED <<users, books, now, held, writes, registered>>

\* the attributes setattr left with a value other than the one loaded: the
\* columns the unit of work puts in its UPDATE
Changed(loaded, book) == {f \in BookFields : book[f] # loaded[f]}

\* update_book, db.commit: UPDATE books SET <changed columns> WHERE id = ?;
\* no statement when nothing changed, StaleDataError when no row matched
update_commit(w) ==
    /\ wk[w].pc = "update_commit"
    /\ LET req == wk[w].req
           changed == Changed(wk[w].loaded, req.fields)
       IN  IF changed # {} /\ Absent(req.id)
           THEN /\ Respond(w, ServerError(req))
                /\ UNCHANGED <<books, writes>>
           ELSE /\ books' = IF changed = {} THEN books
                            ELSE [books EXCEPT ![req.id] =
                                    [f \in BookFields |->
                                        IF f \in changed THEN req.fields[f] ELSE @[f]]]
                /\ writes' = [writes EXCEPT ![req.id] = @ \cup {req.fields}]
                /\ wk' = [wk EXCEPT ![w] = [pc |-> "update_refresh", req |-> req]]
                /\ last' = last
    /\ UNCHANGED <<users, now, held, registered>>

update_refresh(w) ==
    /\ wk[w].pc = "update_refresh"
    /\ Refresh(w)
    /\ UNCHANGED <<users, books, now, held, writes, registered>>

\* delete_book, up to the SELECT
delete_select(w, book_id) ==
    LET req == [Blank EXCEPT !.op = "delete", !.id = book_id]
    IN
    /\ wk[w].pc = "idle"
    /\ IF Absent(book_id)
       THEN Respond(w, [req EXCEPT !.status = 404, !.detail = "Book not found"])
       ELSE /\ wk' = [wk EXCEPT ![w] = [pc |-> "delete_commit", req |-> req,
                                        loaded |-> books[book_id]]]
            /\ last' = last
    /\ UNCHANGED <<users, books, now, held, writes, registered>>

\* delete_book, db.delete and db.commit: DELETE FROM books WHERE id = ?; a
\* DELETE that matches no row only warns; the object loaded is returned
delete_commit(w) ==
    /\ wk[w].pc = "delete_commit"
    /\ books' = IF Absent(wk[w].req.id) THEN books ELSE Remove(books, wk[w].req.id)
    /\ Respond(w, [wk[w].req EXCEPT !.status = 200,
                                    !.row = Row(wk[w].req.id, wk[w].loaded),
                                    !.body = Serialize(Row(wk[w].req.id, wk[w].loaded))])
    /\ UNCHANGED <<users, now, held, writes, registered>>

(***************************************************************************)
(* Inputs.                                                                 *)
(***************************************************************************)
Usernames == {"alice", "Alice"}
Passwords == {"pw1", "wrong"}
NSalts == 2
Salts == 1..NSalts

TtlTicks == Minutes(ACCESS_TOKEN_EXPIRE_MINUTES)

\* what a client can put in the Authorization header: nothing, junk, the token
\* it holds, that token with an edited claim, or a token signed with a key of
\* its own
Edited(tok) ==
    { [tok EXCEPT !.sub = u] : u \in Usernames \ {tok.sub} }
    \cup { [tok EXCEPT !.exp = @ + 1] }
Forged(sub, exp) ==
    [kind |-> "jwt", sub |-> sub, exp |-> exp, sig |-> Sign("guess", ALGORITHM, sub, exp)]
Presented(tok) ==
    {NoToken, Garbage, Forged("alice", NumericDate(now) + 1)}
    \cup (IF tok.kind = "jwt" THEN {tok} \cup Edited(tok) ELSE {})

Lo == [title |-> Rep("a", TitleMinLen), author |-> Rep("b", AuthorMinLen),
       year |-> YearGt + 1, category |-> Rep("c", CategoryMinLen)]
Hi == [title |-> Rep("x", TitleMaxLen), author |-> Rep("y", AuthorMaxLen),
       year |-> YearLt - 1, category |-> Rep("z", CategoryMaxLen)]
ValidInputs == {Lo, Hi}
InvalidInputs ==
    { [Lo EXCEPT !.title = Rep("a", TitleMinLen - 1)],
      [Hi EXCEPT !.title = Rep("x", TitleMaxLen + 1)],
      [Lo EXCEPT !.author = Rep("b", AuthorMinLen - 1)],
      [Hi EXCEPT !.author = Rep("y", AuthorMaxLen + 1)],
      [Lo EXCEPT !.year = YearGt],
      [Hi EXCEPT !.year = YearLt],
      [Lo EXCEPT !.category = Rep("c", CategoryMinLen - 1)],
      [Hi EXCEPT !.category = Rep("z", CategoryMaxLen + 1)] }
BookInputs == ValidInputs \cup InvalidInputs
Ids == 1..MaxId

(***************************************************************************)
(* The state after construction: empty tables (create_all), no request     *)
(* handled, no request in flight.                                          *)
(***************************************************************************)
Idle == [pc |-> "idle"]

Init ==
    /\ users = <<>>
    /\ books = <<>>
    /\ now = 0
    /\ held = [tok |-> NoToken, at |-> 0]
    /\ last = Blank
    /\ wk = [w \in 1..NWorkers |-> Idle]
    /\ writes = [i \in Ids |-> {}]
    /\ registered = <<>>

(***************************************************************************)
(* Spec: the book handlers behind the auth gate, one request at a time.    *)
(***************************************************************************)
Next ==
    \/ signup("alice", "pw1", 1)
    \/ login("alice", "pw1")
    \/ Advance(TtlTicks)
    \/ \E token \in Presented(held.tok), book \in BookInputs : create_book(token, book)
    \/ \E book_id \in Ids : get_book(book_id)
    \/ \E book_id \in Ids, book \in BookInputs : update_book(book_id, book)
    \/ \E book_id \in Ids : delete_book(book_id)

Spec == Init /\ [][Next]_vars

(***************************************************************************)
(* SpecAuth: signup, login and token verification as the clock runs.       *)
(***************************************************************************)
NextAuth ==
    \/ \E u \in Usernames, p \in Passwords, salt \in Salts : signup(u, p, salt)
    \/ \E u \in Usernames, p \in Passwords : login(u, p)
    \/ \E token \in Presented(held.tok) : get_current_user(token)
    \/ Advance(1)
    \/ Advance(TtlTicks - 1)

SpecAuth == Init /\ [][NextAuth]_vars

(***************************************************************************)
(* SpecList: one list request over each store that creates and deletes can *)
(* leave behind.                                                           *)
(***************************************************************************)
Str2(a, b) == <<a, b>>
Str3(a, b, c) == <<a, b, c>>
ListInputs ==
    { [title |-> Str2("G", "o"), author |-> Str2("a", "l"), year |-> 2020,
       category |-> Str3("t", "e", "c")],
      [title |-> Str2("a", "b"), author |-> Str2("G", "O"), year |-> 1990,
       category |-> Str3("h", "i", "s")],
      [title |-> Str2("Z", "z"), author |-> Str2("a", "_"), year |-> 2020,
       category |-> Str3("T", "e", "c")] }
Categories == {Unset, Given(<<>>), Given(Str3("t", "e", "c"))}
Searches == {Unset, Given(<<>>), Given(Str2("g", "O")), Given(<<"_">>), Given(<<"%">>)}
Limits == {-1, 1, DefaultLimit}
Offsets == {-1, DefaultOffset, 1}
SortBys == {"title", "year", "id"}
Orders == {"asc", "desc", "DESC"}

Queries ==
    [category : Categories, search : Searches, limit : Limits, offset : Offsets,
     sort_by : SortBys, order : Orders]

\* a store and one list request received
InitList ==
    /\ users = <<>>
    /\ books \in UNION { [D -> ListInputs] : D \in SUBSET Ids }
    /\ now = 0
    /\ held = [tok |-> NoToken, at |-> 0]
    /\ last = Blank
    /\ \E q \in Queries :
          wk = [w \in 1..NWorkers |-> IF w = 1 THEN [pc |-> "list", q |-> q] ELSE Idle]
    /\ writes = [i \in Ids |-> {}]
    /\ registered = <<>>

NextList == \E w \in 1..NWorkers : get_books(w)

SpecList == InitList /\ [][NextList]_vars

(***************************************************************************)
(* SpecConc: requests handled by independent workers.                      *)
(***************************************************************************)
MaxConcId == 1
NewTitle == [Lo EXCEPT !.title = Rep("x", TitleMinLen)]
NewAuthor == [Lo EXCEPT !.author = Rep("y", AuthorMinLen)]
ConcInputs == {Lo, NewTitle, NewAuthor}
ConcIds == 1..MaxConcId
Workers == 1..NWorkers

InitConc ==
    /\ users = <<>>
    /\ books = <<>>
    /\ now = 0
    /\ held = [tok |-> NoToken, at |-> 0]
    /\ last = Blank
    /\ wk = [w \in Workers |-> Idle]
    /\ writes = [i \in ConcIds |-> {}]
    /\ registered = <<>>

NextConc ==
    \/ \E w \in Workers, p \in Passwords : signup_select(w, "alice", p, 1)
    \/ \E w \in Workers : signup_commit(w)
    \/ login("alice", "pw1")
    \/ \E w \in Workers : create_insert(w, held.tok, Lo)
    \/ \E w \in Workers : create_refresh(w)
    \/ \E w \in Workers, book_id \in ConcIds, book \in ConcInputs :
          update_select(w, book_id, book)
    \/ \E w \in Workers : update_commit(w)
    \/ \E w \in Workers : update_refresh(w)
    \/ \E w \in Workers, book_id \in ConcIds : delete_select(w, book_id)
    \/ \E w \in Workers : delete_commit(w)
    \/ \E book_id \in ConcIds : get_book(book_id)

SpecConc == InitConc /\ [][NextConc]_vars

(***************************************************************************)
(* Claims checked under Spec.                                              *)
(***************************************************************************)
\* a request step: the handler named op has just answered
Handled(op) == last' # last /\ last'.op = op

\* the token presented is not one login issued (none, junk, an edited claim
\* or a foreign signature), or it is the issued one and has expired
NotIssued(token) == token.kind # "jwt" \/ token # held.tok
Rejectable(token) == NotIssued(token) \/ Expired(token.exp, now)

\* C1: a create request whose bearer token is missing, is not a token login
\* issued (junk, edited claims, foreign signature) or has expired is answered
\* 401 and leaves the books unchanged; an id enters the store only through a
\* create request whose token is the issued, unexpired one.
C1_AuthGate ==
    [][ /\ (Handled("create") /\ Rejectable(last'.token))
            => (last'.status = 401 /\ books' = books)
        /\ (DOMAIN books' \ DOMAIN books # {})
            => (Handled("create") /\ last'.status = 200 /\ ~Rejectable(last'.token)) ]_vars

C1_Witness ==
    /\ last.op = "create" /\ last.status = 401
    /\ last.token.kind = "jwt" /\ last.token = held.tok
    /\ Expired(last.token.exp, now)

\* C5 (as claimed): an authorized create with valid fields assigns an id no
\* stored book has and returns the stored record including that id; a get of
\* that id right after it returns exactly the fields, and a get repeated with
\* no write in between returns the same result and leaves the store alone.
C5_CreateGetRoundTrip ==
    [][ /\ (Handled("create") /\ last'.status = 200)
            => /\ last'.id \notin DOMAIN books
               /\ last'.id \in DOMAIN books'
               /\ "id" \in DOMAIN last'.body
               /\ last'.body.id = last'.id
               /\ Serialize(last'.body) = last'.fields
        /\ (Handled("get") /\ last.op = "create" /\ last.status = 200
              /\ last'.id = last.id)
            => (last'.status = 200 /\ last'.body = last.fields /\ books' = books)
        /\ (Handled("get") /\ last.op = "get" /\ last'.id = last.id)
            => (last'.status = last.status /\ last'.body = last.body /\ books' = books)
      ]_vars

WithinConstraints(book) ==
    /\ Len(book.title) \in 1..100
    /\ Len(book.author) \in 1..50
    /\ book.year \in 1901..2025
    /\ Len(book.category) \in 3..50

C3_LoginOutcome ==
    [][ Handled("login") =>
          LET u == last'.username
              matches == u \in DOMAIN registered /\ registered[u] = last'.password
          IN  /\ matches =>
                    /\ last'.status = 200
                    /\ verify_access_token(last'.access_token, now).ok
                    /\ verify_access_token(last'.access_token, now).sub = u
                    /\ held'.tok = last'.access_token
              /\ ~matches =>
                    /\ last'.status = 400
                    /\ last'.detail = "Invalid Credentials"
                    /\ last'.access_token = NoToken
                    /\ held' = held
      ]_vars

C3_Witness ==
    /\ last.op = "login" /\ last.status = 200
    /\ last.username = "Alice"
    /\ Len(users) = 2
    /\ registered["alice"] # registered["Alice"]

\* the issued token is presented
Genuine(token) == token.kind = "jwt" /\ token = held.tok

\* C4 (as claimed): the token issued at time t with ttl d verifies to its
\* subject at every time now < t + d and is invalid at every now >= t + d; a
\* token that was not issued is invalid at every time; the answer is always
\* the subject or 401.
C4_WindowAsClaimed ==
    [][ Handled("auth") =>
          /\ last'.status \in {200, 401}
          /\ Genuine(last'.token) =>
                ((last'.status = 200 /\ last'.username = held.tok.sub)
                    <=> now < held.at + TtlTicks)
          /\ ~Genuine(last'.token) => last'.status = 401
      ]_vars

\* t + d cut down to a whole second, in ticks
WholeSecond(t) == (t \div TicksPerSecond) * TicksPerSecond

\* C4 (amended): the token issued at time t with ttl d verifies to its subject
\* at every time now before the whole second that t + d falls in, and is
\* invalid from the start of that second on, so also at now = t + d; a token
\* that was not issued is invalid at every time; the answer is always the
\* subject or 401.
C4_TokenValidityWindow ==
    [][ Handled("auth") =>
          /\ last'.status \in {200, 401}
          /\ Genuine(last'.token) =>
                /\ (last'.status = 200 /\ last'.username = held.tok.sub)
                      <=> now < WholeSecond(held.at + TtlTicks)
                /\ now >= held.at + TtlTicks => last'.status = 401
          /\ ~Genuine(last'.token) => last'.status = 401
      ]_vars

C4_Witness ==
    /\ last.op = "auth" /\ last.status = 401
    /\ Genuine(last.token)
    /\ now = held.at + TtlTicks

(***************************************************************************)
(* Claims checked under SpecList.                                          *)
(***************************************************************************)
\* hay contains needle, letter case ignored
Contains(hay, needle) ==
    \E i \in 1..(Len(hay) + 1) :
        /\ i + Len(needle) - 1 <= Len(hay)
        /\ SubSeq(Lower(hay), i, i + Len(needle) - 1) = Lower(needle)

\* the ids the claim selects for query q
Selected(q) ==
    { id \in DOMAIN books :
        /\ Truthy(q.category) => books[id].category = q.category.v
        /\ Truthy(q.search) =>
              \/ Contains(books[id].title, q.search.v)
              \/ Contains(books[id].author, q.search.v) }

\* pagination takes nothing away
Unpaged(q) == q.offset <= 0 /\ (q.limit < 0 \/ q.limit >= Cardinality(DOMAIN books))

\* rows is in the order the query asks for
InOrder(rows, q) ==
    IF q.sort_by \in {"title", "author", "year"}
    THEN \A i, j \in DOMAIN rows :
            i < j => ~Before(q.sort_by, q.order = "desc", rows[j], rows[i])
    ELSE \A i, j \in DOMAIN rows : i < j => rows[i].id < rows[j].id

\* C8 (as claimed): before pagination, list returns exactly the books whose
\* category equals the category filter when one is given and, when a search
\* is given, whose title or author contains the search string, letter case
\* ignored; ordered by sort_by when it is title, author or year, ascending
\* unless order is exactly "desc", and unsorted (storage order) for any other
\* sort_by; it is answered 200 and never modifies the store.
C8_ListFilterSort ==
    [][ Handled("list") =>
          LET q == last'.query
              rows == last'.rows
          IN  /\ last'.status = 200
              /\ books' = books
              /\ InOrder(rows, q)
              /\ Unpaged(q) =>
                    /\ { rows[i].id : i \in DOMAIN rows } = Selected(q)
                    /\ Len(rows) = Cardinality(Selected(q))
                    /\ \A i \in DOMAIN rows : rows[i] = Row(rows[i].id, books[rows[i].id])
      ]_vars

\* the elements of seq at positions offset .. offset + limit - 1, counted from 0
Slice(seq, offset, limit) ==
    [i \in 1..Max(0, Min(limit, Len(seq) - offset)) |-> seq[offset + i]]

\* the filtered, ordered sequence of query q, all of it
Full(q) == Query(books, [q EXCEPT !.offset = 0, !.limit = Cardinality(DOMAIN books)])

\* list(offset=1, limit=1) with no other parameter, over 3 stored records
SecondOfThree(q) ==
    /\ ~q.category.given /\ ~q.search.given
    /\ q.order = "asc"
    /\ q.offset = 1 /\ q.limit = 1
    /\ Cardinality(DOMAIN books) = 3

\* the stored record second in insertion order
SecondInserted ==
    CHOOSE id \in DOMAIN books : Cardinality({j \in DOMAIN books : j < id}) = 1

\* C9 (as claimed): list returns the elements at positions offset ..
\* offset+limit-1 of the filtered, ordered sequence, and list(offset=1,
\* limit=1) with no other parameters (so sort_by = "title", its default) over
\* 3 stored records returns exactly the second record in insertion order.
C9_PaginationAsClaimed ==
    [][ Handled("list") =>
          LET q == last'.query
          IN  /\ (q.offset >= 0 /\ q.limit >= 0)
                    => last'.rows = Slice(Full(q), q.offset, q.limit)
              /\ (SecondOfThree(q) /\ q.sort_by = "title")
                    => last'.rows = <<Row(SecondInserted, books[SecondInserted])>>
      ]_vars

\* C9 (amended): list applies offset (a negative one counts as 0) before limit
\* (a negative one means no limit) to the filtered, ordered sequence and
\* returns its elements at positions offset .. offset+limit-1, however large
\* limit is; list(offset=1, limit=1) with no other parameters sorts by title,
\* the default sort_by, and over 3 stored records returns the record with the
\* second smallest title; it returns the second record in insertion order
\* when sort_by names no sortable column.
C9_Pagination ==
    [][ Handled("list") =>
          LET q == last'.query
              n == Cardinality(DOMAIN books)
          IN  /\ last'.rows = Slice(Full(q), Max(q.offset, 0),
                                    IF q.limit < 0 THEN n ELSE q.limit)
              /\ (SecondOfThree(q) /\ q.sort_by = "title") =>
                    /\ Len(last'.rows) = 1
                    /\ Cardinality({id \in DOMAIN books :
                           StrLess(books[id].title, last'.rows[1].title)}) <= 1
                    /\ Cardinality({id \in DOMAIN books :
                           ~StrLess(last'.rows[1].title, books[id].title)}) >= 2
              /\ (SecondOfThree(q) /\ q.sort_by \notin {"title", "author", "year"})
                    => last'.rows = <<Row(SecondInserted, books[SecondInserted])>>
              /\ books' = books
      ]_vars

C9_Witness ==
    /\ last.op = "list" /\ SecondOfThree(last.query) /\ last.query.sort_by = "title"
    /\ Len(last.rows) = 1
    /\ last.rows[1].id # SecondInserted

(***************************************************************************)
(* Claims checked under SpecConc.                                          *)
(***************************************************************************)
\* C2 (as claimed): no two stored users share a username, and under every
\* interleaving a signup that ends when its username is already stored (by an
\* earlier signup or by one that ran meanwhile) is answered 400 "Username
\* already taken" and leaves the users table unchanged; only a signup whose
\* username is not yet stored succeeds.
C2_DuplicateSignup ==
    [][ /\ \A i, j \in 1..Len(users') :
              users'[i].username = users'[j].username => i = j
        /\ (Handled("signup") /\ last'.username \in StoredUsernames(users))
              => /\ last'.status = 400
                 /\ last'.detail = "Username already taken"
                 /\ users' = users
        /\ (Handled("signup") /\ last'.username \notin StoredUsernames(users))
              => (last'.status = 200 /\ Len(users') = Len(users) + 1)
      ]_vars

\* C6 (as claimed, its clause on interleaved requests): the record stored
\* under an id is always the fields of one single write (the create or an
\* update) to that id, never a mixture of two writes' fields.
C6_NeverAMixture ==
    \A id \in DOMAIN books : books[id] \in writes[id]

====
